---------------------------- MODULE Spec2Model ----------------------------
(***************************************************************************)
(* A model of the clock-timer crate: the countdown timer                   *)
(* (timer::TimerStruct) and the stopwatch (stopwatch::StopwatchStruct) of  *)
(* src/src/lib.rs, and the browser stopwatch (Stopwatch) of                *)
(* src/src/wasm.rs.                                                        *)
(*                                                                         *)
(* u32 values are kept at their real width.  TLC's integers are 32-bit     *)
(* signed, so a u32 is held as three base-2^16 limbs <<l0, l1, l2>>        *)
(* (little endian); a value fits u32 exactly when its top limb is 0.       *)
(***************************************************************************)
EXTENDS Integers, Sequences, FiniteSets, TLC

VARIABLES
    \* ---- the build and the sink --------------------------------------
    build,              \* "debug" (overflow checks on) or "release" (wrapping)
    sink_fails,         \* TRUE when the writer W may return Err from write/flush
    io_errors,          \* history: the number of Err results the writer has returned
    \* ---- timer::TimerStruct --------------------------------------------
    t_pc,               \* position of the caller / of start_timer
    hours,              \* argument and field `hours`
    minutes,            \* argument and field `minutes`
    seconds,            \* argument and field `seconds`
    duration,           \* field `duration` (Zero until constructed)
    current_duration,   \* the local of start_timer
    t_out,              \* what start_timer has written to `writer`, one entry per write
    t_shown,            \* history: the values of current_duration that were displayed
    t_sleeps,           \* history: the number of thread::sleep calls start_timer has made
    \* ---- stopwatch::StopwatchStruct ------------------------------------
    sw_pc,              \* position of the thread that calls start_stopwatch
    current_time,       \* field `current_time`
    status,             \* field `status` of the stopwatch that runs
    clone_status,       \* field `status` of the clone the documented example stops
    shared_time,        \* the Arc<AtomicU32> shared with the Ctrl-C handler
    current_seconds,    \* the loop's local copy of shared_time
    handler_installed,  \* TRUE once ctrlc::set_handler has registered the closure
    h_pc,               \* position of the Ctrl-C handler thread
    final_time,         \* the handler's local
    exited,             \* TRUE once process::exit(0) has run
    sw_out,             \* what start_stopwatch has written to `writer`, one entry per write
    stdout,             \* what the handler's println!() has written to standard output
    calls,              \* history: the invocations of operation_on_stop, in order
    sw_shown,           \* history: the values of current_seconds that were displayed
    stop_len,           \* history: Len(sw_out) when the clone was stopped, -1 before
    entry_time,         \* history: current_time at the entry of start_stopwatch
    invocations,        \* history: the number of entries of start_stopwatch
    handler_inv,        \* history: the invocation that registered the handler, 0 if none
    time_for_handler,   \* the Arc<AtomicU32> the registered handler closure holds
    increments,         \* history: fetch_add calls completed by this invocation
    \* ---- wasm::Stopwatch ------------------------------------------------
    w_pc,               \* "absent", or "live" once Stopwatch::new has run
    w_current_time,     \* field `current_time`
    w_running,          \* field `running`
    w_interval_id,      \* field `interval_id`: <<>> for None, <<id>> for Some(id)
    w_intervals,        \* the host's scheduled intervals: [id, time of the closure]
    w_next_id,          \* the handle the host's setInterval returns next
    w_log,              \* what the closures have logged to the console
    w_ret,              \* history: what stop() returned, with the firings before it
    w_fired,            \* history: firings of the interval callback since start()
    w_window,           \* TRUE when web_sys::window() is Some in this context
    w_last_call         \* history: the latest method called on the Stopwatch

timer_vars == <<t_pc, hours, minutes, seconds, duration, current_duration, t_out, t_shown,
                t_sleeps>>
env_vars == <<build, sink_fails>>
sw_vars == <<sw_pc, current_time, status, clone_status, shared_time, current_seconds,
             handler_installed, h_pc, final_time, exited, sw_out, stdout, calls,
             sw_shown, stop_len, entry_time, invocations, handler_inv, time_for_handler,
             increments>>
wasm_vars == <<w_pc, w_current_time, w_running, w_interval_id, w_intervals, w_next_id,
               w_log, w_ret, w_fired, w_window, w_last_call>>
vars == <<build, sink_fails, io_errors, t_pc, hours, minutes, seconds, duration, current_duration,
          t_out, t_shown, t_sleeps, sw_pc, current_time, status, clone_status, shared_time,
          current_seconds, handler_installed, h_pc, final_time, exited, sw_out, stdout,
          calls, sw_shown, stop_len, entry_time, invocations, handler_inv,
          time_for_handler, increments, w_pc, w_current_time, w_running,
          w_interval_id, w_intervals, w_next_id, w_log, w_ret, w_fired, w_window,
          w_last_call>>

---------------------------------------------------------------------------
(* Bounds of the model *)

\* small values of the seconds argument
MaxSeconds == 3
\* small values of the minutes argument
MaxMinutes == 1
\* iterations of the timer's display loop that are explored
MaxTicks == 65
\* iterations of the stopwatch's display loop that are explored
MaxElapsed == 4
\* entries of start_stopwatch in one process that are explored
MaxInvocations == 2
\* Err results of the sink that are explored
MaxErrors == 2
\* firings of the browser's interval callback that are explored
MaxFires == 3
\* intervals the browser host hands out
MaxIntervals == 3
\* calls of the wasm stop() that are explored
MaxStops == 3

---------------------------------------------------------------------------
(* u32 arithmetic on limbs *)

Base == 2 ^ 16

Zero == <<0, 0, 0>>
One == <<1, 0, 0>>
U32Max == <<Base - 1, Base - 1, 0>>

\* the limbs of a small natural (n < 2^31)
W(n) == <<n % Base, (n \div Base) % Base, 0>>

\* exact product of a u32 by a small constant; the excess is left in the top limb
WMul(x, c) ==
    LET p0 == x[1] * c
        p1 == x[2] * c + (p0 \div Base)
        p2 == x[3] * c + (p1 \div Base)
    IN  <<p0 % Base, p1 % Base, p2>>

\* exact sum
WAdd(x, y) ==
    LET s0 == x[1] + y[1]
        s1 == x[2] + y[2] + (s0 \div Base)
        s2 == x[3] + y[3] + (s1 \div Base)
    IN  <<s0 % Base, s1 % Base, s2>>

Fits32(x) == x[3] = 0
Wrap32(x) == <<x[1], x[2], 0>>

\* quotient and remainder of a u32 by a divisor d <= 3600; both fit an integer
DivU32(x, d) == ((x[2] \div d) * Base) + ((((x[2] % d) * Base) + x[1]) \div d)
RemU32(x, d) == (((x[2] % d) * Base) + x[1]) % d

\* a faulty decrement: two per tick
SubOneTwice(x) ==
    IF x[1] > 1 THEN <<x[1] - 2, x[2], 0>>
    ELSE IF x[2] > 0 THEN <<Base - 2 + x[1], x[2] - 1, 0>>
    ELSE <<Base - 2 + x[1], Base - 1, 0>>

\* x - 1 in u32, wrapping below zero as a release build does
SubOne(x) ==
    IF x[1] > 0 THEN <<x[1] - 1, x[2], 0>>
    ELSE IF x[2] > 0 THEN <<Base - 1, x[2] - 1, 0>>
    ELSE U32Max

---------------------------------------------------------------------------
(* format!("{}", n) for an unsigned integer: decimal, no padding *)

Digit(d) ==
    CASE d = 0 -> "0" [] d = 1 -> "1" [] d = 2 -> "2" [] d = 3 -> "3" [] d = 4 -> "4"
      [] d = 5 -> "5" [] d = 6 -> "6" [] d = 7 -> "7" [] d = 8 -> "8" [] d = 9 -> "9"

RECURSIVE Display(_)
Display(n) == IF n < 10 THEN Digit(n) ELSE Display(n \div 10) \o Digit(n % 10)

---------------------------------------------------------------------------
(* timer::TimerStruct *)

\* TimerStruct::new: the Result it returns, or the overflow panic of a debug build
TimerNew(h, m, s, b) ==
    LET hs == WMul(h, 3600)
        ms == WMul(m, 60)
        sum1 == WAdd(Wrap32(hs), Wrap32(ms))
        sum2 == WAdd(Wrap32(sum1), s)
        overflow == ~Fits32(hs) \/ ~Fits32(ms) \/ ~Fits32(sum1) \/ ~Fits32(sum2)
        d == Wrap32(sum2)
    IN  IF b = "debug" /\ overflow THEN [tag |-> "panic", duration |-> Zero]
        ELSE IF d = Zero THEN [tag |-> "Err", duration |-> Zero]
        ELSE [tag |-> "Ok", duration |-> d]

\* a faulty format: the fields in the order seconds, minutes, hours
time_display_string_reversed(v) ==
    Display(RemU32(v, 3600) % 60) \o ":" \o Display(RemU32(v, 3600) \div 60) \o ":"
        \o Display(DivU32(v, 3600))

\* the text start_timer formats for a countdown value
time_display_string(v) ==
    LET display_hours == DivU32(v, 3600)
        remaining_seconds_after_hours == RemU32(v, 3600)
        display_minutes == remaining_seconds_after_hours \div 60
        display_seconds == remaining_seconds_after_hours % 60
    IN  Display(display_hours) \o ":" \o Display(display_minutes) \o ":"
            \o Display(display_seconds)

\* a faulty test: the loop ends one second early
IsFinalAtOne(v) == v = One

\* the test `current_duration == 0` that selects the final line and the break
IsFinal(v) == v = Zero

\* a faulty line end: the final line overwritten like the others
LineEndAlwaysReturn(v) == "\r"

\* what follows the text in the write: writeln! for the final line, "{}\r" otherwise
LineEnd(v) == IF IsFinal(v) THEN "\n" ELSE "\r"

\* where start_timer goes after a successful write
AfterWrite(v) == IF IsFinal(v) THEN "done" ELSE "flush"

HoursIn == {W(0), W(1), W(1193046), U32Max}
MinutesIn == {W(n) : n \in 0..MaxMinutes} \cup {W(28)}
SecondsIn == {W(n) : n \in 0..MaxSeconds} \cup {W(16), W(19), U32Max}

TimerInit ==
    /\ t_pc = "new"
    /\ hours \in HoursIn
    /\ minutes \in MinutesIn
    /\ seconds \in SecondsIn
    /\ duration = Zero
    /\ current_duration = Zero
    /\ t_out = <<>>
    /\ t_shown = <<>>
    /\ t_sleeps = 0

\* the results a write or a flush on the writer can have: TRUE for Ok
SinkResults == IF sink_fails THEN {TRUE, FALSE} ELSE {TRUE}

\* a faulty unwrap: an Err is dropped and the run goes on
unwrap_ignored(ok, next) == next

\* `.unwrap()` on the io::Result of a write or a flush: an Err panics
unwrap(ok, next) == IF ok THEN next ELSE "panicked"

\* the caller evaluates TimerStruct::new(hours, minutes, seconds)
New ==
    /\ t_pc = "new"
    /\ LET r == TimerNew(hours, minutes, seconds, build)
       IN  /\ t_pc' = CASE r.tag = "Ok" -> "constructed"
                        [] r.tag = "Err" -> "invalid_duration"
                        [] OTHER -> "panicked"
           /\ duration' = r.duration
    /\ UNCHANGED <<hours, minutes, seconds, current_duration, t_out, t_shown, t_sleeps>>
    /\ UNCHANGED <<env_vars, io_errors, sw_vars, wasm_vars>>

\* entry of start_timer: let mut current_duration = self.duration
start_timer ==
    /\ t_pc = "constructed"
    /\ current_duration' = duration
    /\ t_pc' = "loop"
    /\ UNCHANGED <<hours, minutes, seconds, duration, t_out, t_shown, t_sleeps>>
    /\ UNCHANGED <<env_vars, io_errors, sw_vars, wasm_vars>>

\* top of the loop: format the line and write it (writeln! and break at 0)
TimerWrite ==
    /\ t_pc = "loop"
    /\ Len(t_out) < MaxTicks
    /\ \E ok \in SinkResults :
          /\ t_pc' = unwrap(ok, AfterWrite(current_duration))
          /\ IF ok
             THEN /\ t_out' = Append(t_out, time_display_string(current_duration)
                                                \o LineEnd(current_duration))
                  /\ t_shown' = Append(t_shown, current_duration)
                  /\ UNCHANGED io_errors
             ELSE /\ io_errors < MaxErrors
                  /\ io_errors' = io_errors + 1
                  /\ UNCHANGED <<t_out, t_shown>>
    /\ UNCHANGED <<hours, minutes, seconds, duration, current_duration, t_sleeps>>
    /\ UNCHANGED <<env_vars, sw_vars, wasm_vars>>

\* writer.flush().unwrap()
TimerFlush ==
    /\ t_pc = "flush"
    /\ \E ok \in SinkResults :
          /\ t_pc' = unwrap(ok, "sleep")
          /\ IF ok THEN UNCHANGED io_errors
             ELSE io_errors < MaxErrors /\ io_errors' = io_errors + 1
    /\ UNCHANGED <<hours, minutes, seconds, duration, current_duration, t_out, t_shown,
                   t_sleeps>>
    /\ UNCHANGED <<env_vars, sw_vars, wasm_vars>>

\* thread::sleep(one_second); current_duration -= 1
TimerSleepDecrement ==
    /\ t_pc = "sleep"
    /\ IF current_duration = Zero /\ build = "debug"
       THEN t_pc' = "panicked" /\ UNCHANGED current_duration
       ELSE t_pc' = "loop" /\ current_duration' = SubOne(current_duration)
    /\ t_sleeps' = t_sleeps + 1
    /\ UNCHANGED <<hours, minutes, seconds, duration, t_out, t_shown>>
    /\ UNCHANGED <<env_vars, io_errors, sw_vars, wasm_vars>>

TimerNext == New \/ start_timer \/ TimerWrite \/ TimerFlush \/ TimerSleepDecrement

\* the program constructs no timer
TimerAbsent ==
    /\ t_pc = "absent"
    /\ hours = Zero /\ minutes = Zero /\ seconds = Zero
    /\ duration = Zero /\ current_duration = Zero
    /\ t_out = <<>> /\ t_shown = <<>> /\ t_sleeps = 0

---------------------------------------------------------------------------
(* stopwatch::StopwatchStruct *)

\* the text start_stopwatch formats for an elapsed value
output_format(v) ==
    LET hours_ == DivU32(v, 3600)
        minutes_ == RemU32(v, 3600) \div 60
        seconds_ == RemU32(v, 60)
    IN  Display(hours_) \o ":" \o Display(minutes_) \o ":" \o Display(seconds_)

\* a faulty increment: two per tick
FetchAddTwo(x) == Wrap32(WAdd(x, <<2, 0, 0>>))

\* AtomicU32::fetch_add(1): wrapping
FetchAddOne(x) == Wrap32(WAdd(x, One))

\* a faulty test: the loop also ends by itself at 2 seconds
LoopSeesStopOrLimit == status = "Stopped" \/ shared_time = W(2)

\* the loop's test `if let StopwatchStatus::Stopped = self.status`
LoopSeesStop == status = "Stopped"

\* the value the loop passes on to the write after its load
LoopLoad == shared_time

\* the value the Ctrl-C handler passes to operation_on_stop
HandlerLoad == time_for_handler

\* values a caller stores into the public field current_time before a run
StartTimes == {W(3598)}

\* StopwatchStruct::new: current_time 0, status Running; the documented example
\* clones the stopwatch right away
StopwatchInit ==
    /\ sw_pc = "constructed"
    /\ current_time = Zero
    /\ status = "Running"
    /\ clone_status = "Running"
    /\ shared_time = Zero
    /\ current_seconds = Zero
    /\ handler_installed = FALSE
    /\ h_pc = "waiting"
    /\ final_time = Zero
    /\ exited = FALSE
    /\ sw_out = <<>>
    /\ stdout = <<>>
    /\ calls = <<>>
    /\ sw_shown = <<>>
    /\ stop_len = -1
    /\ entry_time = Zero
    /\ invocations = 0
    /\ handler_inv = 0
    /\ time_for_handler = Zero
    /\ increments = 0

\* the program constructs no stopwatch
StopwatchAbsent ==
    /\ sw_pc = "absent"
    /\ current_time = Zero
    /\ status = "Running"
    /\ clone_status = "Running"
    /\ shared_time = Zero
    /\ current_seconds = Zero
    /\ handler_installed = FALSE
    /\ h_pc = "waiting"
    /\ final_time = Zero
    /\ exited = FALSE
    /\ sw_out = <<>>
    /\ stdout = <<>>
    /\ calls = <<>>
    /\ sw_shown = <<>>
    /\ stop_len = -1
    /\ entry_time = Zero
    /\ invocations = 0
    /\ handler_inv = 0
    /\ time_for_handler = Zero
    /\ increments = 0

\* the owner stores Stopped into the public field before calling start_stopwatch
SetStatusStopped ==
    /\ sw_pc = "constructed" /\ ~exited
    /\ status = "Running"
    /\ status' = "Stopped"
    /\ UNCHANGED <<sw_pc, current_time, clone_status, shared_time, current_seconds,
                   handler_installed, h_pc, final_time, exited, sw_out, stdout, calls,
                   sw_shown, stop_len, entry_time>>
    /\ UNCHANGED <<invocations, handler_inv, time_for_handler, increments>>
    /\ UNCHANGED <<env_vars, io_errors, timer_vars, wasm_vars>>

\* the owner stores a time into the public field before calling start_stopwatch
SetCurrentTime ==
    /\ sw_pc = "constructed" /\ ~exited
    /\ current_time = Zero
    /\ current_time' \in StartTimes
    /\ UNCHANGED <<sw_pc, status, clone_status, shared_time, current_seconds,
                   handler_installed, h_pc, final_time, exited, sw_out, stdout, calls,
                   sw_shown, stop_len, entry_time>>
    /\ UNCHANGED <<invocations, handler_inv, time_for_handler, increments>>
    /\ UNCHANGED <<env_vars, io_errors, timer_vars, wasm_vars>>

\* the documented example's other thread: stopwatch_clone.status = Stopped
CloneStop ==
    /\ sw_pc \notin {"absent", "constructed"} /\ ~exited
    /\ clone_status = "Running"
    /\ clone_status' = "Stopped"
    /\ stop_len' = Len(sw_out)
    /\ UNCHANGED <<sw_pc, current_time, status, shared_time, current_seconds,
                   handler_installed, h_pc, final_time, exited, sw_out, stdout, calls,
                   sw_shown, entry_time>>
    /\ UNCHANGED <<invocations, handler_inv, time_for_handler, increments>>
    /\ UNCHANGED <<env_vars, io_errors, timer_vars, wasm_vars>>

\* entry of start_stopwatch: shared_time = Arc::new(AtomicU32::new(self.current_time))
start_stopwatch ==
    /\ sw_pc \in {"constructed", "returned"} /\ ~exited
    /\ invocations < MaxInvocations
    /\ invocations' = invocations + 1
    /\ shared_time' = current_time
    /\ entry_time' = current_time
    /\ increments' = 0
    /\ sw_pc' = "set_handler"
    /\ UNCHANGED <<current_time, status, clone_status, current_seconds,
                   handler_installed, h_pc, final_time, exited, sw_out, stdout, calls,
                   sw_shown, stop_len>>
    /\ UNCHANGED <<handler_inv, time_for_handler>>
    /\ UNCHANGED <<env_vars, io_errors, timer_vars, wasm_vars>>

\* the result of ctrlc::set_handler: the process has one handler slot, and a
\* call made when it is taken returns Err(MultipleHandlers)
set_handler_result == IF handler_installed THEN "Err" ELSE "Ok"

\* ctrlc::set_handler(move || ...).expect("Error setting Ctrl-C handler"), with
\* time_for_handler = Arc::clone(&shared_time) moved into the closure
SetHandler ==
    /\ sw_pc = "set_handler" /\ ~exited
    /\ IF set_handler_result = "Ok"
       THEN /\ handler_installed' = TRUE
            /\ handler_inv' = invocations
            /\ time_for_handler' = shared_time
            /\ sw_pc' = "check"
       ELSE /\ sw_pc' = "handler_error"
            /\ UNCHANGED <<handler_installed, handler_inv, time_for_handler>>
    /\ UNCHANGED <<current_time, status, clone_status, shared_time, current_seconds,
                   h_pc, final_time, exited, sw_out, stdout, calls, sw_shown, stop_len,
                   entry_time>>
    /\ UNCHANGED <<invocations, increments>>
    /\ UNCHANGED <<env_vars, io_errors, timer_vars, wasm_vars>>

\* top of the loop: break when self.status is Stopped
LoopCheck ==
    /\ sw_pc = "check" /\ ~exited
    /\ sw_pc' = IF LoopSeesStop THEN "store" ELSE "load"
    /\ UNCHANGED <<current_time, status, clone_status, shared_time, current_seconds,
                   handler_installed, h_pc, final_time, exited, sw_out, stdout, calls,
                   sw_shown, stop_len, entry_time>>
    /\ UNCHANGED <<invocations, handler_inv, time_for_handler, increments>>
    /\ UNCHANGED <<env_vars, io_errors, timer_vars, wasm_vars>>

\* let current_seconds = shared_time.load(SeqCst)
LoopLoadTime ==
    /\ sw_pc = "load" /\ ~exited
    /\ current_seconds' = LoopLoad
    /\ sw_pc' = "write"
    /\ UNCHANGED <<current_time, status, clone_status, shared_time,
                   handler_installed, h_pc, final_time, exited, sw_out, stdout, calls,
                   sw_shown, stop_len, entry_time>>
    /\ UNCHANGED <<invocations, handler_inv, time_for_handler, increments>>
    /\ UNCHANGED <<env_vars, io_errors, timer_vars, wasm_vars>>

\* write!(writer, "{}\r", output_format).unwrap()
LoopWrite ==
    /\ sw_pc = "write" /\ ~exited
    /\ Len(sw_shown) < MaxElapsed
    /\ \E ok \in SinkResults :
          /\ sw_pc' = unwrap(ok, "flush")
          /\ IF ok
             THEN /\ sw_out' = Append(sw_out, output_format(current_seconds) \o "\r")
                  /\ sw_shown' = Append(sw_shown, current_seconds)
                  /\ UNCHANGED io_errors
             ELSE /\ io_errors < MaxErrors
                  /\ io_errors' = io_errors + 1
                  /\ UNCHANGED <<sw_out, sw_shown>>
    /\ UNCHANGED <<current_time, status, clone_status, shared_time, current_seconds,
                   handler_installed, h_pc, final_time, exited, stdout, calls, stop_len,
                   entry_time>>
    /\ UNCHANGED <<invocations, handler_inv, time_for_handler, increments>>
    /\ UNCHANGED <<env_vars, timer_vars, wasm_vars>>

\* writer.flush().unwrap()
LoopFlush ==
    /\ sw_pc = "flush" /\ ~exited
    /\ \E ok \in SinkResults :
          /\ sw_pc' = unwrap(ok, "sleep")
          /\ IF ok THEN UNCHANGED io_errors
             ELSE io_errors < MaxErrors /\ io_errors' = io_errors + 1
    /\ UNCHANGED <<current_time, status, clone_status, shared_time, current_seconds,
                   handler_installed, h_pc, final_time, exited, sw_out, stdout, calls,
                   sw_shown, stop_len, entry_time>>
    /\ UNCHANGED <<invocations, handler_inv, time_for_handler, increments>>
    /\ UNCHANGED <<env_vars, timer_vars, wasm_vars>>

\* thread::sleep(Duration::from_secs(1))
LoopSleep ==
    /\ sw_pc = "sleep" /\ ~exited
    /\ sw_pc' = "fetch_add"
    /\ UNCHANGED <<current_time, status, clone_status, shared_time, current_seconds,
                   handler_installed, h_pc, final_time, exited, sw_out, stdout, calls,
                   sw_shown, stop_len, entry_time>>
    /\ UNCHANGED <<invocations, handler_inv, time_for_handler, increments>>
    /\ UNCHANGED <<env_vars, io_errors, timer_vars, wasm_vars>>

\* shared_time.fetch_add(1, SeqCst)
LoopFetchAdd ==
    /\ sw_pc = "fetch_add" /\ ~exited
    /\ shared_time' = FetchAddOne(shared_time)
    /\ time_for_handler' = IF handler_inv = invocations THEN shared_time'
                           ELSE time_for_handler
    /\ increments' = increments + 1
    /\ sw_pc' = "check"
    /\ UNCHANGED <<current_time, status, clone_status, current_seconds,
                   handler_installed, h_pc, final_time, exited, sw_out, stdout, calls,
                   sw_shown, stop_len, entry_time>>
    /\ UNCHANGED <<invocations, handler_inv>>
    /\ UNCHANGED <<env_vars, io_errors, timer_vars, wasm_vars>>

\* a faulty exit path: the loop's local copy is stored instead
ExitLoadLocal == current_seconds

\* the value the exit path stores into the field: shared_time.load(SeqCst)
ExitLoad == shared_time

\* after the break: self.current_time = shared_time.load(SeqCst)
ExitStore ==
    /\ sw_pc = "store" /\ ~exited
    /\ current_time' = ExitLoad
    /\ sw_pc' = "newline"
    /\ UNCHANGED <<status, clone_status, shared_time, current_seconds,
                   handler_installed, h_pc, final_time, exited, sw_out, stdout, calls,
                   sw_shown, stop_len, entry_time>>
    /\ UNCHANGED <<invocations, handler_inv, time_for_handler, increments>>
    /\ UNCHANGED <<env_vars, io_errors, timer_vars, wasm_vars>>

\* a faulty exit path: the callback runs without the final newline
ExitNewlineSkipped ==
    /\ sw_pc = "newline" /\ ~exited
    /\ sw_pc' = "callback"
    /\ UNCHANGED <<current_time, status, clone_status, shared_time, current_seconds,
                   handler_installed, h_pc, final_time, exited, sw_out, stdout, calls,
                   sw_shown, stop_len, entry_time>>
    /\ UNCHANGED <<invocations, handler_inv, time_for_handler, increments>>
    /\ UNCHANGED <<env_vars, io_errors, timer_vars, wasm_vars>>

\* writeln!(writer).unwrap()
ExitNewline ==
    /\ sw_pc = "newline" /\ ~exited
    /\ \E ok \in SinkResults :
          /\ sw_pc' = unwrap(ok, "callback")
          /\ IF ok THEN sw_out' = Append(sw_out, "\n") /\ UNCHANGED io_errors
             ELSE /\ io_errors < MaxErrors
                  /\ io_errors' = io_errors + 1
                  /\ UNCHANGED sw_out
    /\ UNCHANGED <<current_time, status, clone_status, shared_time, current_seconds,
                   handler_installed, h_pc, final_time, exited, stdout, calls,
                   sw_shown, stop_len, entry_time>>
    /\ UNCHANGED <<invocations, handler_inv, time_for_handler, increments>>
    /\ UNCHANGED <<env_vars, timer_vars, wasm_vars>>

\* (self.operation_on_stop)(self.current_time), then return
ExitCallback ==
    /\ sw_pc = "callback" /\ ~exited
    /\ calls' = Append(calls, [value |-> current_time, by |-> "loop",
                               shown |-> Len(sw_shown)])
    /\ sw_pc' = "returned"
    /\ UNCHANGED <<current_time, status, clone_status, shared_time, current_seconds,
                   handler_installed, h_pc, final_time, exited, sw_out, stdout,
                   sw_shown, stop_len, entry_time>>
    /\ UNCHANGED <<invocations, handler_inv, time_for_handler, increments>>
    /\ UNCHANGED <<env_vars, io_errors, timer_vars, wasm_vars>>

\* Ctrl-C is pressed: the handler thread starts to run the registered closure
Interrupt ==
    /\ handler_installed /\ ~exited
    /\ h_pc = "waiting"
    /\ h_pc' = "load"
    /\ UNCHANGED <<sw_pc, current_time, status, clone_status, shared_time,
                   current_seconds, handler_installed, final_time, exited, sw_out,
                   stdout, calls, sw_shown, stop_len, entry_time>>
    /\ UNCHANGED <<invocations, handler_inv, time_for_handler, increments>>
    /\ UNCHANGED <<env_vars, io_errors, timer_vars, wasm_vars>>

\* let final_time = time_for_handler.load(SeqCst)
HandlerLoadTime ==
    /\ h_pc = "load" /\ ~exited
    /\ final_time' = HandlerLoad
    /\ h_pc' = "println"
    /\ UNCHANGED <<sw_pc, current_time, status, clone_status, shared_time,
                   current_seconds, handler_installed, exited, sw_out, stdout, calls,
                   sw_shown, stop_len, entry_time>>
    /\ UNCHANGED <<invocations, handler_inv, time_for_handler, increments>>
    /\ UNCHANGED <<env_vars, io_errors, timer_vars, wasm_vars>>

\* println!()
HandlerPrintln ==
    /\ h_pc = "println" /\ ~exited
    /\ stdout' = Append(stdout, "\n")
    /\ h_pc' = "callback"
    /\ UNCHANGED <<sw_pc, current_time, status, clone_status, shared_time,
                   current_seconds, handler_installed, final_time, exited, sw_out,
                   calls, sw_shown, stop_len, entry_time>>
    /\ UNCHANGED <<invocations, handler_inv, time_for_handler, increments>>
    /\ UNCHANGED <<env_vars, io_errors, timer_vars, wasm_vars>>

\* (op_on_stop)(final_time)
HandlerCallback ==
    /\ h_pc = "callback" /\ ~exited
    /\ calls' = Append(calls, [value |-> final_time, by |-> "handler",
                               shown |-> Len(sw_shown)])
    /\ h_pc' = "exit"
    /\ UNCHANGED <<sw_pc, current_time, status, clone_status, shared_time,
                   current_seconds, handler_installed, final_time, exited, sw_out,
                   stdout, sw_shown, stop_len, entry_time>>
    /\ UNCHANGED <<invocations, handler_inv, time_for_handler, increments>>
    /\ UNCHANGED <<env_vars, io_errors, timer_vars, wasm_vars>>

\* process::exit(0)
HandlerExit ==
    /\ h_pc = "exit" /\ ~exited
    /\ exited' = TRUE
    /\ h_pc' = "exited"
    /\ UNCHANGED <<sw_pc, current_time, status, clone_status, shared_time,
                   current_seconds, handler_installed, final_time, sw_out, stdout,
                   calls, sw_shown, stop_len, entry_time>>
    /\ UNCHANGED <<invocations, handler_inv, time_for_handler, increments>>
    /\ UNCHANGED <<env_vars, io_errors, timer_vars, wasm_vars>>

StopwatchNext ==
    \/ SetStatusStopped \/ SetCurrentTime \/ CloneStop
    \/ start_stopwatch \/ SetHandler
    \/ LoopCheck \/ LoopLoadTime \/ LoopWrite \/ LoopFlush \/ LoopSleep \/ LoopFetchAdd
    \/ ExitStore \/ ExitNewline \/ ExitCallback
    \/ Interrupt \/ HandlerLoadTime \/ HandlerPrintln \/ HandlerCallback \/ HandlerExit

---------------------------------------------------------------------------
(* wasm::Stopwatch (src/src/wasm.rs), driven by the browser's event loop *)

\* the getter current_time
WasmCurrentTime == w_current_time

\* the `time` a new interval closure starts from: let mut time = self.current_time
ClosureStart == w_current_time

\* the value stop() returns
StopReturns == w_current_time

\* the line an interval closure logs for its time
console_line(t) ==
    LET hours_ == DivU32(t, 3600)
        minutes_ == RemU32(t, 3600) \div 60
        seconds_ == RemU32(t, 60)
    IN  "Stopwatch: " \o Display(hours_) \o ":" \o Display(minutes_) \o ":"
            \o Display(seconds_)

\* a faulty take: the handle is left in the field
KeepIntervalId == w_interval_id

\* what self.interval_id.take() leaves in the field: None
TakeIntervalId == <<>>

\* Stopwatch::new
WasmInit ==
    /\ w_pc = "live"
    /\ w_current_time = Zero
    /\ w_running = FALSE
    /\ w_interval_id = <<>>
    /\ w_intervals = {}
    /\ w_next_id = 1
    /\ w_log = <<>>
    /\ w_ret = <<>>
    /\ w_fired = 0
    /\ w_window \in BOOLEAN
    /\ w_last_call = "new"

\* the page constructs no wasm stopwatch
WasmAbsent ==
    /\ w_pc = "absent"
    /\ w_current_time = Zero
    /\ w_running = FALSE
    /\ w_interval_id = <<>>
    /\ w_intervals = {}
    /\ w_next_id = 1
    /\ w_log = <<>>
    /\ w_ret = <<>>
    /\ w_fired = 0
    /\ w_window = TRUE
    /\ w_last_call = "new"

\* Stopwatch::start.  running is set before web_sys::window().expect(..): without
\* a window the call panics there, and the object takes no further call.
WasmStart ==
    /\ w_pc = "live"
    /\ w_next_id <= MaxIntervals
    /\ w_last_call' = "start"
    /\ IF w_running
       THEN UNCHANGED <<w_pc, w_running, w_interval_id, w_intervals, w_next_id, w_fired>>
       ELSE /\ w_running' = TRUE
            /\ IF w_window
               THEN /\ w_intervals' = w_intervals \cup
                                         {[id |-> w_next_id, time |-> ClosureStart]}
                    /\ w_interval_id' = <<w_next_id>>
                    /\ w_next_id' = w_next_id + 1
                    /\ w_fired' = 0
                    /\ UNCHANGED w_pc
               ELSE /\ w_pc' = "panicked"
                    /\ UNCHANGED <<w_interval_id, w_intervals, w_next_id, w_fired>>
    /\ UNCHANGED <<w_current_time, w_log, w_ret, w_window>>
    /\ UNCHANGED <<env_vars, io_errors, timer_vars, sw_vars>>

\* the host fires a scheduled interval: the closure runs time += 1 and logs it
WasmIntervalFires ==
    /\ w_pc = "live"
    /\ Len(w_log) < MaxFires
    /\ \E i \in w_intervals :
          LET t == Wrap32(WAdd(i.time, One))
          IN  /\ w_intervals' = (w_intervals \ {i}) \cup {[id |-> i.id, time |-> t]}
              /\ w_log' = Append(w_log, console_line(t))
              /\ w_fired' = IF w_interval_id = <<i.id>> THEN w_fired + 1 ELSE w_fired
    /\ UNCHANGED <<w_pc, w_current_time, w_running, w_interval_id, w_next_id, w_ret,
                   w_window, w_last_call>>
    /\ UNCHANGED <<env_vars, io_errors, timer_vars, sw_vars>>

\* Stopwatch::stop (an interval id in the field was set through the window, so
\* window() is Some where it is cleared)
WasmStop ==
    /\ w_pc = "live"
    /\ Len(w_ret) < MaxStops
    /\ w_last_call' = "stop"
    /\ IF ~w_running
       THEN UNCHANGED <<w_running, w_interval_id, w_intervals>>
       ELSE /\ w_running' = FALSE
            /\ w_interval_id' = TakeIntervalId
            /\ w_intervals' = {i \in w_intervals : <<i.id>> # w_interval_id}
    /\ w_ret' = Append(w_ret, [value |-> StopReturns, was_running |-> w_running,
                               fired |-> w_fired])
    /\ UNCHANGED <<w_pc, w_current_time, w_next_id, w_log, w_fired, w_window>>
    /\ UNCHANGED <<env_vars, io_errors, timer_vars, sw_vars>>

\* Stopwatch::reset: self.stop(); self.current_time = 0
WasmReset ==
    /\ w_pc = "live"
    /\ w_last_call' = "reset"
    /\ IF ~w_running
       THEN UNCHANGED <<w_running, w_interval_id, w_intervals>>
       ELSE /\ w_running' = FALSE
            /\ w_interval_id' = TakeIntervalId
            /\ w_intervals' = {i \in w_intervals : <<i.id>> # w_interval_id}
    /\ w_current_time' = Zero
    /\ w_fired' = 0
    /\ UNCHANGED <<w_pc, w_next_id, w_log, w_ret, w_window>>
    /\ UNCHANGED <<env_vars, io_errors, timer_vars, sw_vars>>

WasmNext == WasmStart \/ WasmIntervalFires \/ WasmStop \/ WasmReset

---------------------------------------------------------------------------
(* The program uses one of the components; they share no state. *)

Init ==
    /\ build \in {"debug", "release"}
    /\ sink_fails \in BOOLEAN
    /\ io_errors = 0
    /\ \/ TimerInit /\ StopwatchAbsent /\ WasmAbsent
       \/ TimerAbsent /\ StopwatchInit /\ WasmAbsent
       \/ TimerAbsent /\ StopwatchAbsent /\ WasmInit

Next == TimerNext \/ StopwatchNext \/ WasmNext

Spec == Init /\ [][Next]_vars

\* the thread that runs start_timer keeps being scheduled and its sleeps return
FairSpec == Init /\ [][Next]_vars /\ WF_vars(TimerNext)

---------------------------------------------------------------------------
(* Vocabulary of the properties *)

\* the mathematical value of hours*3600 + minutes*60 + seconds (not reduced to u32)
MathTotal == WAdd(WAdd(WMul(hours, 3600), WMul(minutes, 60)), seconds)

\* "{v/3600}:{(v%3600)/60}:{v%60}" for a u32 v
HMS(v) ==
    Display(DivU32(v, 3600)) \o ":" \o Display(RemU32(v, 3600) \div 60) \o ":"
        \o Display(RemU32(v, 60))

\* a <= b for two u32
LeqU32(a, b) == a[2] < b[2] \/ (a[2] = b[2] /\ a[1] <= b[1])

\* s is a prefix of t
IsPrefix(s, t) == Len(s) <= Len(t) /\ \A i \in 1..Len(s) : s[i] = t[i]

TimerConstructed == t_pc \in {"constructed", "loop", "flush", "sleep", "done"}

---------------------------------------------------------------------------
(* Countdown timer properties *)

\* C4: for every (h, m, s) with total D > 0, a run of start_timer against a
\* capturing sink that has returned has written exactly D + 1 lines, the last
\* being "0:0:0" with a newline and every other one ending in a carriage return.
C4_LinesAreTotalPlusOne ==
    (~sink_fails /\ MathTotal # Zero /\ t_pc = "done") =>
        /\ W(Len(t_out)) = WAdd(MathTotal, One)
        /\ t_out[Len(t_out)] = "0:0:0\n"
        /\ \A i \in 1..(Len(t_out) - 1) : t_out[i] = HMS(t_shown[i]) \o "\r"

\* C4, restricted to inputs whose total fits u32: the line count is duration + 1
C4_LinesWhenNoOverflow ==
    (Fits32(MathTotal) /\ t_pc = "done") =>
        /\ W(Len(t_out)) = WAdd(MathTotal, One)
        /\ t_out[Len(t_out)] = "0:0:0\n"
        /\ \A i \in 1..(Len(t_out) - 1) : t_out[i] = HMS(t_shown[i]) \o "\r"

\* C5: the displayed countdown values start at duration, go down by exactly 1
\* from one line to the next, end at 0 when start_timer returns, and the
\* decrement is never applied to 0.
C5_CountdownByOne ==
    /\ Len(t_shown) >= 1 => t_shown[1] = duration
    /\ \A i \in 1..(Len(t_shown) - 1) :
          /\ t_shown[i] # Zero
          /\ WAdd(t_shown[i + 1], One) = t_shown[i]
    /\ t_pc = "done" => t_shown[Len(t_shown)] = Zero
    /\ t_pc = "sleep" => current_duration # Zero

C5_Witness == t_pc = "done" /\ Len(t_shown) >= 4

\* C6: construction fails with InvalidDuration exactly for the inputs whose
\* total is 0 (and that failure is a result value, not a panic).
C6_InvalidDurationIffZeroTotal ==
    t_pc # "new" =>
        /\ (t_pc = "invalid_duration") <=> (MathTotal = Zero)
        /\ MathTotal = Zero => t_pc # "panicked"

\* C7: for every input with a positive total, construction is accepted and the
\* timer's duration is that total.
C7_DurationIsTotal ==
    (t_pc # "new" /\ MathTotal # Zero) =>
        /\ TimerConstructed \/ (t_pc = "panicked" /\ duration # Zero)
        /\ duration = MathTotal

\* C8: every display line written by start_timer and by start_stopwatch for a
\* value v is the text "{v/3600}:{(v%3600)/60}:{v%60}" (decimal, no padding,
\* hours first) followed by its line end.
C8_DisplayLinesAreHMS ==
    /\ \A i \in 1..Len(t_out) :
          t_out[i] \in {HMS(t_shown[i]) \o "\r", HMS(t_shown[i]) \o "\n"}
    /\ Len(sw_shown) <= Len(sw_out)
    /\ \A i \in 1..Len(sw_shown) : sw_out[i] = HMS(sw_shown[i]) \o "\r"

\* the stopwatch, started at 3598 s, has displayed the turn of the hour
C8_Witness ==
    /\ Len(sw_out) >= 4
    /\ sw_out[2] = "0:59:59\r" /\ sw_out[3] = "1:0:0\r" /\ sw_out[4] = "1:0:1\r"

\* C9 as stated: Timer::new(0,0,3) writes "3:0:0\r", "2:0:0\r", "1:0:0\r", "0:0:0\n".
C9_AsStated ==
    (hours = W(0) /\ minutes = W(0) /\ seconds = W(3) /\ t_pc = "done") =>
        /\ duration = W(3)
        /\ t_out = <<"3:0:0\r", "2:0:0\r", "1:0:0\r", "0:0:0\n">>

\* C9 amended: Timer::new(0,0,3) gives duration 3 and its run writes
\* "0:0:3\r", "0:0:2\r", "0:0:1\r", "0:0:0\n" in that order (nothing else, and
\* all four once it has returned).
C9_ThreeSecondRun ==
    (hours = W(0) /\ minutes = W(0) /\ seconds = W(3) /\ t_pc # "new") =>
        /\ duration = W(3)
        /\ IsPrefix(t_out, <<"0:0:3\r", "0:0:2\r", "0:0:1\r", "0:0:0\n">>)
        /\ t_pc = "done" => Len(t_out) = 4

C9_Witness ==
    hours = W(0) /\ minutes = W(0) /\ seconds = W(3) /\ t_pc = "done" /\ Len(t_out) = 4

---------------------------------------------------------------------------
(* Stopwatch properties *)

\* C1: on either stop path the value passed to on_stop equals the last elapsed
\* value the tick loop wrote to the sink (never one more than it).
C1_OnStopValueIsLastDisplayed ==
    \A i \in 1..Len(calls) :
        calls[i].shown >= 1 => calls[i].value = sw_shown[calls[i].shown]

\* C2: on_stop is invoked exactly once for one stopwatch: never twice, and once
\* when start_stopwatch has returned or the process has exited.
C2_OnStopExactlyOnce ==
    /\ Len(calls) <= 1
    /\ (sw_pc = "returned" \/ exited) => Len(calls) = 1

\* C3: a stopwatch constructed with a capturing callback and stopped
\* cooperatively, the way the documentation of start_stopwatch stops it, after
\* N ticks writes no display line after the stop (at most the one whose
\* iteration had already passed the status test) and, once start_stopwatch has
\* returned without an interrupt, has invoked the callback exactly once with N,
\* the sink holding the N display lines and the newline.
C3_CooperativeStopAfterNTicks ==
    /\ stop_len >= 0 => Len(sw_shown) <= stop_len + 1
    /\ (sw_pc = "returned" /\ h_pc = "waiting" /\ entry_time = Zero) =>
          /\ Len(calls) = 1
          /\ calls[1].value = W(Len(sw_shown))
          /\ Len(sw_out) = Len(sw_shown) + 1

\* C10: a running stopwatch stopped cooperatively ends its output with a
\* newline-terminated display line for the final elapsed value; stopped after
\* the 2nd tick, it writes no third tick, the callback receives 2 and the final
\* written line is "2:0:0\n".
C10_FinalLineAfterCooperativeStop ==
    /\ (sw_pc = "returned" /\ Len(sw_shown) >= 1) =>
          sw_out[Len(sw_out)] = HMS(current_time) \o "\n"
    /\ (stop_len = 2 /\ entry_time = Zero) =>
          /\ Len(sw_shown) <= 3
          /\ sw_pc = "returned" =>
                /\ calls[1].value = W(2)
                /\ sw_out[Len(sw_out)] = "2:0:0\n"

C12_TimerTerminates ==
    /\ [](t_pc = "done" => current_duration = Zero /\ W(t_sleeps) = duration)
    /\ [][(t_pc = "loop" /\ t_pc' = "flush") => current_duration # Zero]_vars
    /\ [][(t_pc = "loop" /\ t_pc' = "done") => current_duration = Zero]_vars
    /\ (t_pc = "loop" /\ ~sink_fails /\ LeqU32(duration, W(MaxTicks - 1)))
          ~> (t_pc = "done")

C12_Witness == t_pc = "done" /\ t_sleeps >= 3 /\ W(t_sleeps) = duration

\* C13: as long as status stays Running and no interrupt is delivered,
\* start_stopwatch has not left its loop for the exit path, has not returned and
\* on_stop has not been invoked, at any elapsed value; a loop that ended
\* otherwise ended on a failed write of the sink.
C13_RunsUntilStopped ==
    /\ (sw_pc # "absent" /\ status = "Running" /\ h_pc = "waiting") =>
          /\ sw_pc \notin {"store", "newline", "callback", "returned"}
          /\ calls = <<>>
    /\ (sw_pc = "panicked" /\ status = "Running") => sink_fails

C13_Witness ==
    /\ status = "Running" /\ h_pc = "waiting" /\ sw_pc = "check"
    /\ Len(sw_shown) >= 3 /\ calls = <<>>

\* C14: once the documented example has set status = Stopped on its clone of
\* the running stopwatch, the loop's next status test leaves the loop (for the
\* exit path that runs on_stop).
C14_CloneStopEndsLoop ==
    [][(clone_status = "Stopped" /\ sw_pc = "check" /\ sw_pc' # "check")
          => sw_pc' = "store"]_vars

\* the positions of the loop of start_stopwatch
LoopPositions == {"check", "load", "write", "flush", "sleep", "fetch_add"}

\* C16: on both stop paths the final newline is written before on_stop is
\* invoked.  Cooperative path: loop exit, newline to the sink,
\* on_stop(current_time), return.  Interrupt path: load of the shared counter,
\* newline, on_stop(final_time), process exit, after which the thread that
\* called start_stopwatch takes no step (it never returns).
C16_NewlineBeforeOnStop ==
    /\ [][Len(calls') > Len(calls) =>
            LET c == calls'[Len(calls')]
            IN  IF c.by = "loop"
                THEN /\ sw_pc = "callback" /\ sw_pc' = "returned"
                     /\ sw_out # <<>> /\ sw_out[Len(sw_out)] = "\n"
                     /\ c.value = current_time
                ELSE /\ h_pc = "callback" /\ h_pc' = "exit"
                     /\ stdout # <<>> /\ stdout[Len(stdout)] = "\n"
                     /\ c.value = final_time]_vars
    /\ [][(sw_pc' = "store" /\ sw_pc # "store") => sw_pc = "check"]_vars
    /\ [][(sw_pc' = "newline" /\ sw_pc # "newline") => sw_pc = "store"]_vars
    /\ [][(sw_pc' = "callback" /\ sw_pc # "callback") =>
            sw_pc = "newline" /\ sw_out' = Append(sw_out, "\n")]_vars
    /\ [][(h_pc' = "println" /\ h_pc # "println") =>
            h_pc = "load" /\ final_time' = time_for_handler]_vars
    /\ [][(h_pc' = "callback" /\ h_pc # "callback") =>
            h_pc = "println" /\ stdout' = Append(stdout, "\n")]_vars
    /\ [][(exited' /\ ~exited) =>
            /\ h_pc = "exit"
            /\ \E k \in 1..Len(calls) :
                  calls[k].by = "handler" /\ calls[k].value = final_time]_vars
    /\ [][exited => (sw_pc' = sw_pc /\ calls' = calls /\ sw_out' = sw_out)]_vars

\* both paths in one run: a stopwatch stopped before the call has returned, and
\* a later Ctrl-C has run the handler to the process exit
C16_Witness ==
    /\ exited /\ sw_pc = "returned"
    /\ Len(calls) = 2 /\ calls[1].by = "loop" /\ calls[2].by = "handler"
    /\ sw_out = <<"\n">> /\ stdout = <<"\n">>

\* C17: the output has no concurrent writers: the sink is written by the tick
\* loop only, and once the interrupt handler has emitted its final newline and
\* is running on_stop the tick loop writes no further line before the process
\* exits.
C17_NoWriteOnceHandlerRuns ==
    /\ [][sw_out' # sw_out => sw_pc \in {"write", "newline"}]_vars
    /\ [][(h_pc \in {"callback", "exit"} /\ sw_pc \in LoopPositions) =>
            sw_out' = sw_out]_vars

\* C18: every invocation of start_stopwatch installs its interrupt handler and
\* then enters the tick loop, a second invocation after a cooperative stop
\* included, and the handler of the latest invocation reads that invocation's
\* shared counter.
C18_EveryInvocationInstallsHandler ==
    /\ sw_pc # "handler_error"
    /\ sw_pc \in LoopPositions =>
          /\ handler_installed
          /\ handler_inv = invocations
          /\ time_for_handler = shared_time

\* C19: a failed write or flush on the sink is fatal to the run in start_timer
\* and in start_stopwatch: the first failure is the only one, it leaves the
\* thread panicked, and after it the loop writes nothing, sleeps no more and
\* updates no counter.
C19_SinkFailureIsFatal ==
    /\ [](io_errors <= 1)
    /\ [](io_errors = 1 => (t_pc = "panicked" \/ sw_pc = "panicked"))
    /\ [][io_errors >= 1 =>
            /\ t_pc' = t_pc /\ sw_pc' = sw_pc
            /\ t_out' = t_out /\ t_shown' = t_shown /\ t_sleeps' = t_sleeps
            /\ current_duration' = current_duration
            /\ sw_out' = sw_out /\ sw_shown' = sw_shown
            /\ shared_time' = shared_time /\ increments' = increments
            /\ current_time' = current_time
            /\ io_errors' = io_errors]_vars

C19_Witness ==
    /\ io_errors = 1 /\ sw_pc = "panicked"
    /\ Len(sw_shown) >= 2 /\ increments >= 2

---------------------------------------------------------------------------
(* wasm Stopwatch properties *)

\* C15: after start() followed by N firings of the interval callback, stop()
\* returns N and the current_time getter reports N.
C15_StopReturnsElapsed ==
    /\ \A k \in 1..Len(w_ret) :
          w_ret[k].was_running => w_ret[k].value = W(w_ret[k].fired)
    /\ (w_pc = "live" /\ ~w_running /\ Len(w_ret) >= 1) => WasmCurrentTime = W(w_fired)

\* the handles of the intervals the host has scheduled
WasmIds == {i.id : i \in w_intervals}

\* C21: for a wasm Stopwatch that takes calls, after any sequence of start(),
\* stop() and reset(), running is true exactly when interval_id is Some, and
\* at most one host interval is scheduled, the one interval_id names: start()
\* while running schedules nothing, stop() while not running clears nothing,
\* and reset() leaves running false, interval_id None and current_time 0.
C21_RunningIffIntervalSet ==
    /\ [](w_pc = "live" => (w_running <=> w_interval_id # <<>>))
    /\ [](w_pc = "live" =>
            WasmIds = {w_interval_id[k] : k \in 1..Len(w_interval_id)})
    /\ [](Cardinality(w_intervals) <= 1)
    /\ [][(w_running /\ w_last_call' = "start") =>
            /\ WasmIds' = WasmIds
            /\ w_interval_id' = w_interval_id /\ w_running']_vars
    /\ [][(~w_running /\ w_last_call' = "stop") =>
            /\ WasmIds' = WasmIds
            /\ w_interval_id' = w_interval_id /\ ~w_running']_vars
    /\ [](w_last_call = "reset" =>
            ~w_running /\ w_interval_id = <<>> /\ w_current_time = Zero)

\* a stopwatch started, stopped and started again: one interval, the second handle
C21_Witness ==
    /\ w_pc = "live" /\ w_running /\ w_last_call = "start"
    /\ w_interval_id = <<2>> /\ WasmIds = {2} /\ Len(w_ret) >= 1

====
